---- MODULE Spec2Model ----
(***************************************************************************)
(* Model of the cortexa persona streamer: the backend thread               *)
(* (src/main.py backend_loop), the hand-off of fragments to the GUI thread *)
(* through ChunkDispatcher.chunk_signal, and the display state machine of  *)
(* src/ui_renderer.py (typing animation, overflow-triggered fade).         *)
(*                                                                         *)
(* Python strings are sequences of one-character strings, so that strip,   *)
(* split and join are computed as the code computes them.                  *)
(***************************************************************************)
EXTENDS Integers, Sequences, FiniteSets, TLC

(***************************************************************************)
(* Bounds of the model.                                                    *)
(***************************************************************************)
\* total number of fragments a session may emit before the backend only
\* returns empty output
MaxChunks == 4
\* largest configured max_history_chunks
MaxHistory == 3
\* number of characters of wrapped text the balloon rectangle can hold
BalloonCapacity == 5

(***************************************************************************)
(* Program constants.                                                      *)
(***************************************************************************)
\* while ... and iteration < 8
IterationCap == 8

(***************************************************************************)
(* Python string primitives.                                               *)
(***************************************************************************)
Whitespace == {" ", "\n"}
SentenceEnd == {".", "!", "?"}

Last(s) == s[Len(s)]
Front(s) == SubSeq(s, 1, Len(s) - 1)

RECURSIVE lstrip(_)
lstrip(s) ==
    IF s = <<>> THEN s
    ELSE IF Head(s) \in Whitespace THEN lstrip(Tail(s)) ELSE s

RECURSIVE rstrip(_)
rstrip(s) ==
    IF s = <<>> THEN s
    ELSE IF Last(s) \in Whitespace THEN rstrip(Front(s)) ELSE s

\* str.strip()
strip(s) == rstrip(lstrip(s))

RECURSIVE split_acc(_, _, _)
split_acc(s, cur, out) ==
    IF s = <<>> THEN (IF cur = <<>> THEN out ELSE Append(out, cur))
    ELSE IF Head(s) \in Whitespace
         THEN split_acc(Tail(s), <<>>, IF cur = <<>> THEN out ELSE Append(out, cur))
         ELSE split_acc(Tail(s), Append(cur, Head(s)), out)

\* str.split() with no argument: the whitespace-separated words
split(s) == split_acc(s, <<>>, <<>>)

RECURSIVE join(_, _)
\* sep.join(parts)
join(sep, parts) ==
    IF parts = <<>> THEN <<>>
    ELSE IF Len(parts) = 1 THEN parts[1]
    ELSE parts[1] \o sep \o join(sep, Tail(parts))

RECURSIVE sentence_acc(_, _, _)
sentence_acc(s, cur, out) ==
    IF s = <<>> THEN Append(out, cur)
    ELSE IF Head(s) \in Whitespace /\ cur # <<>> /\ Last(cur) \in SentenceEnd
         THEN sentence_acc(lstrip(s), <<>>, Append(out, cur))
         ELSE sentence_acc(Tail(s), Append(cur, Head(s)), out)

\* _sentence_splitter.split(s): re.split on (?<=[.!?])\s+
sentence_split(s) == sentence_acc(s, <<>>, <<>>)

(***************************************************************************)
(* chunk_by_sentence                                                       *)
(***************************************************************************)
\* variant of yield_current: only the last accumulated sentence is yielded
yield_current_last(current_chunk) ==
    IF current_chunk = <<>> THEN <<>> ELSE << strip(Last(current_chunk)) >>

\* yield_current(): the accumulated sentences joined, when there are any
yield_current(current_chunk) ==
    IF current_chunk = <<>> THEN <<>> ELSE << strip(join(<<" ">>, current_chunk)) >>

RECURSIVE word_slices_wide(_, _)
\* variant of word_slices: the slices are one word too long
word_slices_wide(words, max_words) ==
    IF words = <<>> THEN <<>>
    ELSE IF Len(words) <= max_words + 1 THEN << strip(join(<<" ">>, words)) >>
    ELSE << strip(join(<<" ">>, SubSeq(words, 1, max_words + 1))) >>
         \o word_slices_wide(SubSeq(words, max_words + 2, Len(words)), max_words)

RECURSIVE word_slices(_, _)
\* for i in range(0, len(words), max_words): " ".join(words[i:i+max_words]).strip()
word_slices(words, max_words) ==
    IF words = <<>> THEN <<>>
    ELSE IF Len(words) <= max_words THEN << strip(join(<<" ">>, words)) >>
    ELSE << strip(join(<<" ">>, SubSeq(words, 1, max_words))) >>
         \o word_slices(SubSeq(words, max_words + 1, Len(words)), max_words)

RECURSIVE chunk_loop_lax(_, _, _, _, _)
\* variant of chunk_loop: a sentence is still added when it fills the fragment
\* one word beyond max_words
chunk_loop_lax(sentences, max_words, current_chunk, current_count, out) ==
    IF sentences = <<>> THEN out \o yield_current(current_chunk)
    ELSE LET sentence == Head(sentences)
             rest == Tail(sentences)
             n == Len(split(sentence))
         IN  IF n = 0
             THEN chunk_loop_lax(rest, max_words, current_chunk, current_count, out)
             ELSE IF current_count + n <= max_words + 1
             THEN chunk_loop_lax(rest, max_words, Append(current_chunk, sentence),
                                 current_count + n, out)
             ELSE IF n <= max_words
             THEN chunk_loop_lax(rest, max_words, <<sentence>>, n,
                                 out \o yield_current(current_chunk))
             ELSE chunk_loop_lax(rest, max_words, <<>>, 0,
                                 out \o yield_current(current_chunk)
                                     \o word_slices(split(sentence), max_words))

RECURSIVE chunk_loop_no_flush(_, _, _, _, _)
\* variant of chunk_loop: the final yield_current() after the loop is missing
chunk_loop_no_flush(sentences, max_words, current_chunk, current_count, out) ==
    IF sentences = <<>> THEN out
    ELSE LET sentence == Head(sentences)
             rest == Tail(sentences)
             n == Len(split(sentence))
         IN  IF n = 0
             THEN chunk_loop_no_flush(rest, max_words, current_chunk, current_count, out)
             ELSE IF current_count + n <= max_words
             THEN chunk_loop_no_flush(rest, max_words, Append(current_chunk, sentence),
                                      current_count + n, out)
             ELSE IF n <= max_words
             THEN chunk_loop_no_flush(rest, max_words, <<sentence>>, n,
                                      out \o yield_current(current_chunk))
             ELSE chunk_loop_no_flush(rest, max_words, <<>>, 0,
                                      out \o yield_current(current_chunk)
                                          \o word_slices(split(sentence), max_words))

RECURSIVE chunk_loop_each(_, _, _, _, _)
\* variant of chunk_loop: every sentence that fits is yielded on its own,
\* nothing is accumulated
chunk_loop_each(sentences, max_words, current_chunk, current_count, out) ==
    IF sentences = <<>> THEN out \o yield_current(current_chunk)
    ELSE LET sentence == Head(sentences)
             rest == Tail(sentences)
             n == Len(split(sentence))
         IN  IF n = 0
             THEN chunk_loop_each(rest, max_words, current_chunk, current_count, out)
             ELSE IF n <= max_words
             THEN chunk_loop_each(rest, max_words, <<sentence>>, n,
                                  out \o yield_current(current_chunk))
             ELSE chunk_loop_each(rest, max_words, <<>>, 0,
                                  out \o yield_current(current_chunk)
                                      \o word_slices(split(sentence), max_words))

RECURSIVE chunk_loop(_, _, _, _, _)
\* the for loop over the sentences, with the fragments yielded so far in out
chunk_loop(sentences, max_words, current_chunk, current_count, out) ==
    IF sentences = <<>> THEN out \o yield_current(current_chunk)
    ELSE LET sentence == Head(sentences)
             rest == Tail(sentences)
             n == Len(split(sentence))
         IN  IF n = 0
             THEN chunk_loop(rest, max_words, current_chunk, current_count, out)
             ELSE IF current_count + n <= max_words
             THEN chunk_loop(rest, max_words, Append(current_chunk, sentence),
                             current_count + n, out)
             ELSE IF n <= max_words
             THEN chunk_loop(rest, max_words, <<sentence>>, n,
                             out \o yield_current(current_chunk))
             ELSE chunk_loop(rest, max_words, <<>>, 0,
                             out \o yield_current(current_chunk)
                                 \o word_slices(split(sentence), max_words))

\* the fragments chunk_by_sentence(text, max_words) yields, in order
chunk_by_sentence(text, max_words) ==
    chunk_loop(sentence_split(strip(text)), max_words, <<>>, 0, <<>>)

(***************************************************************************)
(* Configuration and backend outputs the model draws from.                 *)
(***************************************************************************)
\* largest configured max_words_per_chunk
MaxWords == 2
\* largest configured drift_interval_chunks
MaxDrift == 2

TangentPrompts == {"", "Take a tangent."}

\* texts llm.generate may return
Outputs ==
    { <<>>,
      <<"a", ".">>,
      <<"b", ".", " ", "a", " ", "b", ".">> }

VARIABLES
    \* configuration read at the start of backend_loop
    max_words, drift_interval, max_history, tangent_prompt,
    \* locals of backend_loop
    pc, iteration, chunk_counter, history, prompt, raw_output, chunks, ci, done,
    \* threading.Event objects that are set, stop_event
    events_set, stop_event,
    \* the GUI thread: posted chunk_signal emissions, widgets, pending timers
    queue, balloon, typing_label, fading, timers,
    \* main(): where the main thread is
    mainpc,
    \* what happened so far: emissions, deliveries to handle_chunk,
    \* on_complete calls, returns of done.wait(), logged warnings
    emitted, received, acks, released, warnings,
    \* start of main(): config personalities, the raw outputs of the topic
    \* LLM so far, the sanitized candidate, the chosen topic
    personalities, raws, sanitized, topic,
    \* topic_picker.pick_topic_via_llm: retries, the attempts made, where it is
    retries, attempt, tpc

topicvars == <<personalities, raws, sanitized, topic, retries, attempt, tpc>>
cfgvars == <<max_words, drift_interval, max_history, tangent_prompt, topicvars>>
backendvars == <<pc, iteration, chunk_counter, history, prompt, raw_output, chunks,
                 ci, done>>
guivars == <<queue, balloon, typing_label, fading, timers>>
logvars == <<emitted, received, acks, released, warnings>>
vars == <<cfgvars, backendvars, events_set, stop_event, guivars, mainpc, logvars>>

NoPrompt == [kind |-> "none", thoughts |-> <<>>]

\* "the meaning of nostalgia"
DefaultTopic ==
    <<"t", "h", "e", " ", "m", "e", "a", "n", "i", "n", "g", " ", "o", "f", " ", "n", "o", "s", "t", "a", "l", "g", "i", "a">>

\* the session has started: one personality configured, the topic LLM
\* returned nothing and the default topic was taken; topic_picker is unused
TopicChosen ==
    /\ personalities = <<"p1">>
    /\ raws = << <<>> >>
    /\ sanitized = <<>>
    /\ topic = DefaultTopic
    /\ retries = 0
    /\ attempt = 0
    /\ tpc = "idle"

Init ==
    /\ max_words \in 1..MaxWords
    /\ drift_interval \in 0..MaxDrift
    /\ max_history \in 0..MaxHistory
    /\ tangent_prompt \in TangentPrompts
    /\ pc = "priming"
    /\ iteration = 0
    /\ chunk_counter = 0
    /\ history = <<>>
    /\ prompt = NoPrompt
    /\ raw_output = <<>>
    /\ chunks = <<>>
    /\ ci = 0
    /\ done = 0
    /\ events_set = {}
    /\ stop_event = FALSE
    /\ queue = <<>>
    /\ balloon = <<>>
    /\ typing_label = ""
    /\ fading = FALSE
    /\ timers = {}
    /\ mainpc = "exec"
    /\ emitted = <<>>
    /\ received = <<>>
    /\ acks = <<>>
    /\ released = <<>>
    /\ warnings = 0
    /\ TopicChosen

(***************************************************************************)
(* backend_loop                                                            *)
(***************************************************************************)
\* build_prompt: the initial form without history, else the continuation
\* form whose context is "\n\n".join(history_chunks)
build_prompt(history_chunks) ==
    IF history_chunks = <<>>
    THEN [kind |-> "initial", thoughts |-> <<>>]
    ELSE [kind |-> "continue", thoughts |-> history_chunks]

\* variant of maybe_inject_tangent: the chunk_count > 0 test is missing
maybe_inject_tangent_at_zero(chunk_count, interval, tangent_cfg) ==
    IF interval # 0 /\ chunk_count % interval = 0
    THEN tangent_cfg
    ELSE "None"

\* maybe_inject_tangent: the configured tangent prompt, or "None"
maybe_inject_tangent(chunk_count, interval, tangent_cfg) ==
    IF interval # 0 /\ chunk_count > 0 /\ chunk_count % interval = 0
    THEN tangent_cfg
    ELSE "None"

\* the truth value Python gives the result of maybe_inject_tangent
truthy(tangent) == tangent # "None" /\ tangent # ""

\* variant of slice_last: history[:n], the oldest entries kept
slice_first(h, n) ==
    IF n = 0 \/ Len(h) <= n THEN h ELSE SubSeq(h, 1, n)

\* history[-n:] for n >= 0 (history[-0:] is history[0:])
slice_last(h, n) ==
    IF n = 0 \/ Len(h) <= n THEN h ELSE SubSeq(h, Len(h) - n + 1, Len(h))

\* history.append(chunk); if len(history) > max_history: history = history[-max_history:]
update_history(h, chunk, cap) ==
    LET appended == Append(h, chunk)
    IN  IF Len(appended) > cap THEN slice_last(appended, cap) ELSE appended

\* time.sleep(initial_pause_seconds)
Prime ==
    /\ pc = "priming"
    /\ pc' = "loop_top"
    /\ UNCHANGED <<cfgvars, raw_output, iteration, chunk_counter, history, prompt, chunks, ci, done,
                   events_set, stop_event, guivars, mainpc, logvars>>

\* variant of LoopTop: the while condition does not look at stop_event
LoopTop_no_stop ==
    /\ pc = "loop_top"
    /\ IF iteration < IterationCap
       THEN /\ iteration' = iteration + 1
            /\ prompt' = IF truthy(maybe_inject_tangent(chunk_counter, drift_interval,
                                                        tangent_prompt))
                         THEN [kind |-> "tangent", thoughts |-> <<>>]
                         ELSE build_prompt(history)
            /\ pc' = "generating"
       ELSE /\ pc' = "stopped"
            /\ UNCHANGED <<iteration, prompt>>
    /\ UNCHANGED <<cfgvars, raw_output, chunk_counter, history, chunks, ci, done,
                   events_set, stop_event, guivars, mainpc, logvars>>

\* variant of LoopTop: the while condition reads iteration <= 8
LoopTop_one_more ==
    /\ pc = "loop_top"
    /\ IF ~stop_event /\ iteration <= IterationCap
       THEN /\ iteration' = iteration + 1
            /\ prompt' = IF truthy(maybe_inject_tangent(chunk_counter, drift_interval,
                                                        tangent_prompt))
                         THEN [kind |-> "tangent", thoughts |-> <<>>]
                         ELSE build_prompt(history)
            /\ pc' = "generating"
       ELSE /\ pc' = "stopped"
            /\ UNCHANGED <<iteration, prompt>>
    /\ UNCHANGED <<cfgvars, raw_output, chunk_counter, history, chunks, ci, done,
                   events_set, stop_event, guivars, mainpc, logvars>>

\* while not stop_event.is_set() and iteration < 8: ... up to the generate call
LoopTop ==
    /\ pc = "loop_top"
    /\ IF ~stop_event /\ iteration < IterationCap
       THEN /\ iteration' = iteration + 1
            /\ prompt' = IF truthy(maybe_inject_tangent(chunk_counter, drift_interval,
                                                        tangent_prompt))
                         THEN [kind |-> "tangent", thoughts |-> <<>>]
                         ELSE build_prompt(history)
            /\ pc' = "generating"
       ELSE /\ pc' = "stopped"
            /\ UNCHANGED <<iteration, prompt>>
    /\ UNCHANGED <<cfgvars, raw_output, chunk_counter, history, chunks, ci, done,
                   events_set, stop_event, guivars, mainpc, logvars>>

\* raw_output = llm.generate(prompt)
Generate(text) ==
    /\ pc = "generating"
    /\ chunk_counter + Len(chunk_by_sentence(text, max_words)) <= MaxChunks
    /\ raw_output' = text
    /\ pc' = "generated"
    /\ UNCHANGED <<cfgvars, iteration, chunk_counter, history, prompt, chunks, ci, done,
                   events_set, stop_event, guivars, mainpc, logvars>>

\* variant of OutputEmpty: the skipped iteration advances the fragment counter
OutputEmpty_counts ==
    /\ pc = "generated"
    /\ raw_output = <<>>
    /\ pc' = "loop_top"
    /\ warnings' = warnings + 1
    /\ chunk_counter' = chunk_counter + 1
    /\ UNCHANGED <<cfgvars, iteration, history, prompt, raw_output,
                   chunks, ci, done, events_set, stop_event, guivars, mainpc,
                   emitted, received, acks, released>>

\* if not raw_output: logger.warning(...); continue
OutputEmpty ==
    /\ pc = "generated"
    /\ raw_output = <<>>
    /\ pc' = "loop_top"
    /\ warnings' = warnings + 1
    /\ UNCHANGED <<cfgvars, iteration, chunk_counter, history, prompt, raw_output,
                   chunks, ci, done, events_set, stop_event, guivars, mainpc,
                   emitted, received, acks, released>>

\* for chunk in chunk_by_sentence(raw_output, max_words): the generator is made
OutputText ==
    /\ pc = "generated"
    /\ raw_output # <<>>
    /\ chunks' = chunk_by_sentence(raw_output, max_words)
    /\ ci' = 0
    /\ pc' = "for_chunk"
    /\ UNCHANGED <<cfgvars, iteration, chunk_counter, history, prompt, raw_output, done,
                   events_set, stop_event, guivars, mainpc, logvars>>

\* the generator is exhausted: back to the while condition
ForDone ==
    /\ pc = "for_chunk"
    /\ ci >= Len(chunks)
    /\ chunks' = <<>>
    /\ ci' = 0
    /\ pc' = "loop_top"
    /\ UNCHANGED <<cfgvars, raw_output, iteration, chunk_counter, history, prompt, done,
                   events_set, stop_event, guivars, mainpc, logvars>>

\* variant of post: the emission reaches the slot twice
post_twice(q, sig) == Append(Append(q, sig), sig)

\* chunk_signal.emit from the backend thread: a queued call posted to the
\* GUI thread's event loop
post(q, sig) == Append(q, sig)

\* variant of next_counter: a sequence number is skipped
next_counter_skip(c) == c + 2

\* chunk_counter += 1
next_counter(c) == c + 1

\* variant of Emit: one Event object is shared by all fragments
Emit_shared_event ==
    /\ pc = "for_chunk"
    /\ ci < Len(chunks)
    /\ ci' = ci + 1
    /\ chunk_counter' = next_counter(chunk_counter)
    /\ done' = 1
    /\ queue' = post(queue, [chunk |-> chunks[ci + 1], done_event |-> 1])
    /\ emitted' = Append(emitted, [seq |-> next_counter(chunk_counter), text |-> chunks[ci + 1],
                                   done_event |-> 1])
    /\ pc' = "emitted"
    /\ UNCHANGED <<cfgvars, raw_output, iteration, history, prompt, chunks,
                   events_set, stop_event, balloon, typing_label, fading, timers, mainpc,
                   received, acks, released, warnings>>

\* chunk_counter += 1; done = threading.Event(); chunk_signal.emit(chunk, done)
Emit ==
    /\ pc = "for_chunk"
    /\ ci < Len(chunks)
    /\ ci' = ci + 1
    /\ chunk_counter' = next_counter(chunk_counter)
    /\ done' = Len(emitted) + 1
    /\ queue' = post(queue, [chunk |-> chunks[ci + 1], done_event |-> Len(emitted) + 1])
    /\ emitted' = Append(emitted, [seq |-> next_counter(chunk_counter), text |-> chunks[ci + 1],
                                   done_event |-> Len(emitted) + 1])
    /\ pc' = "emitted"
    /\ UNCHANGED <<cfgvars, raw_output, iteration, history, prompt, chunks,
                   events_set, stop_event, balloon, typing_label, fading, timers, mainpc,
                   received, acks, released, warnings>>

\* update history window
UpdateHistory ==
    /\ pc = "emitted"
    /\ history' = update_history(history, chunks[ci], max_history)
    /\ pc' = "waiting"
    /\ UNCHANGED <<cfgvars, raw_output, iteration, chunk_counter, prompt, chunks, ci, done,
                   events_set, stop_event, guivars, mainpc, logvars>>

\* variant of WaitDone: the producer goes on without waiting for the event
WaitDone_no_wait ==
    /\ pc = "waiting"
    /\ released' = Append(released, done)
    /\ pc' = "sleeping"
    /\ UNCHANGED <<cfgvars, raw_output, iteration, chunk_counter, history, prompt,
                   chunks, ci, done, events_set, stop_event, guivars, mainpc,
                   emitted, received, acks, warnings>>

\* done.wait() returns once the event is set
WaitDone ==
    /\ pc = "waiting"
    /\ done \in events_set
    /\ released' = Append(released, done)
    /\ pc' = "sleeping"
    /\ UNCHANGED <<cfgvars, raw_output, iteration, chunk_counter, history, prompt, chunks, ci, done,
                   events_set, stop_event, guivars, mainpc,
                   emitted, received, acks, warnings>>

\* time.sleep(inter_chunk_pause), then the next fragment of the generator
Sleep ==
    /\ pc = "sleeping"
    /\ pc' = "for_chunk"
    /\ UNCHANGED <<cfgvars, raw_output, iteration, chunk_counter, history, prompt, chunks, ci, done,
                   events_set, stop_event, guivars, mainpc, logvars>>

Backend ==
    \/ Prime
    \/ LoopTop
    \/ \E text \in Outputs : Generate(text)
    \/ OutputEmpty
    \/ OutputText
    \/ ForDone
    \/ Emit
    \/ UpdateHistory
    \/ WaitDone
    \/ Sleep

(***************************************************************************)
(* The GUI thread: handle_chunk, display_chunk_with_typing and the timers  *)
(* it arms.  A timer is a closure waiting in the event loop:               *)
(*   pause  QTimer.singleShot(pause_before * 1000, do_fade)                *)
(*   anim   the running QPropertyAnimation, whose finished runs after()    *)
(*   step   QTimer.singleShot(50, step)                                    *)
(***************************************************************************)
\* would_overflow: the wrapped text needs more height than the balloon has
would_overflow(candidate_text) == Len(candidate_text) > BalloonCapacity

\* candidate_full of display_chunk_with_typing
candidate_full(existing_text, chunk) ==
    LET existing == strip(existing_text)
    IN  IF existing # <<>> THEN strip(existing \o <<" ">> \o chunk) ELSE strip(chunk)

\* the events on_complete (handle_chunk) sets: done_event.set()
on_complete(set_events, done_event) == set_events \cup {done_event}

\* variant of step: on_complete is called again on the way out
step_twice(done_event, chunk, words, displayed, label, pending) ==
    IF Len(displayed) >= Len(words)
    THEN /\ typing_label' = ""
         /\ balloon' = join(<<" ">>, displayed)
         /\ events_set' = on_complete(events_set, done_event)
         /\ acks' = Append(Append(acks, done_event), done_event)
         /\ timers' = pending
    ELSE /\ typing_label' = label
         /\ balloon' = join(<<" ">>, Append(displayed, words[Len(displayed) + 1]))
         /\ timers' = pending \cup
                {[kind |-> "step", done_event |-> done_event, chunk |-> chunk,
                  words |-> words,
                  displayed |-> Append(displayed, words[Len(displayed) + 1])]}
         /\ UNCHANGED <<events_set, acks>>

\* variant of step: the completion test is off by one word
step_early(done_event, chunk, words, displayed, label, pending) ==
    IF Len(displayed) + 1 >= Len(words)
    THEN /\ typing_label' = ""
         /\ balloon' = join(<<" ">>, displayed)
         /\ events_set' = on_complete(events_set, done_event)
         /\ acks' = Append(acks, done_event)
         /\ timers' = pending
    ELSE /\ typing_label' = label
         /\ balloon' = join(<<" ">>, Append(displayed, words[Len(displayed) + 1]))
         /\ timers' = pending \cup
                {[kind |-> "step", done_event |-> done_event, chunk |-> chunk,
                  words |-> words,
                  displayed |-> Append(displayed, words[Len(displayed) + 1])]}
         /\ UNCHANGED <<events_set, acks>>

\* step() of proceed_with_chunk for the closure (done_event, words, displayed),
\* label being the typing label when it runs and pending the other timers
step(done_event, chunk, words, displayed, label, pending) ==
    IF Len(displayed) >= Len(words)
    THEN /\ typing_label' = ""
         /\ balloon' = join(<<" ">>, displayed)
         /\ events_set' = on_complete(events_set, done_event)
         /\ acks' = Append(acks, done_event)
         /\ timers' = pending
    ELSE /\ typing_label' = label
         /\ balloon' = join(<<" ">>, Append(displayed, words[Len(displayed) + 1]))
         /\ timers' = pending \cup
                {[kind |-> "step", done_event |-> done_event, chunk |-> chunk,
                  words |-> words,
                  displayed |-> Append(displayed, words[Len(displayed) + 1])]}
         /\ UNCHANGED <<events_set, acks>>

\* proceed_with_chunk(text_to_show): set the typing label, run the first step
proceed_with_chunk(done_event, chunk, text_to_show, pending) ==
    step(done_event, chunk, split(text_to_show), <<>>, "typing...", pending)

\* the event loop delivers a posted chunk_signal to handle_chunk, which calls
\* display_chunk_with_typing (and fade_out_and_clear on overflow)
Deliver ==
    /\ mainpc = "exec"
    /\ queue # <<>>
    /\ LET sig == Head(queue)
           candidate == candidate_full(balloon, sig.chunk)
       IN  /\ queue' = Tail(queue)
           /\ received' = Append(received, sig.done_event)
           /\ IF would_overflow(candidate)
              THEN IF fading
                   THEN UNCHANGED <<balloon, typing_label, fading, timers,
                                    events_set, acks>>
                   ELSE /\ fading' = TRUE
                        /\ timers' = timers \cup
                               {[kind |-> "pause", done_event |-> sig.done_event,
                                 chunk |-> sig.chunk, words |-> <<>>,
                                 displayed |-> <<>>]}
                        /\ UNCHANGED <<balloon, typing_label, events_set, acks>>
              ELSE /\ proceed_with_chunk(sig.done_event, sig.chunk, candidate, timers)
                   /\ UNCHANGED fading
    /\ UNCHANGED <<cfgvars, backendvars, stop_event, mainpc, emitted, released, warnings>>

\* variant of FadePause: on_complete is called when the fade starts
FadePause_ack(t) ==
    /\ mainpc = "exec"
    /\ t \in timers
    /\ t.kind = "pause"
    /\ timers' = (timers \ {t}) \cup {[t EXCEPT !.kind = "anim"]}
    /\ events_set' = on_complete(events_set, t.done_event)
    /\ acks' = Append(acks, t.done_event)
    /\ UNCHANGED <<cfgvars, backendvars, stop_event, queue, balloon,
                   typing_label, fading, mainpc, emitted, received, released, warnings>>

\* the pause timer fires: do_fade starts the opacity animation
FadePause(t) ==
    /\ mainpc = "exec"
    /\ t \in timers
    /\ t.kind = "pause"
    /\ timers' = (timers \ {t}) \cup {[t EXCEPT !.kind = "anim"]}
    /\ UNCHANGED <<cfgvars, backendvars, events_set, stop_event, queue, balloon,
                   typing_label, fading, mainpc, logvars>>

\* variant of FadeFinished: after the fade the old text is typed again
\* in front of the new fragment
FadeFinished_keep(t) ==
    /\ mainpc = "exec"
    /\ t \in timers
    /\ t.kind = "anim"
    /\ fading' = FALSE
    /\ proceed_with_chunk(t.done_event, t.chunk, candidate_full(balloon, t.chunk),
                          timers \ {t})
    /\ UNCHANGED <<cfgvars, backendvars, stop_event, queue, mainpc,
                   emitted, received, released, warnings>>

\* anim.finished: after() clears the text and calls on_finished (after_fade)
FadeFinished(t) ==
    /\ mainpc = "exec"
    /\ t \in timers
    /\ t.kind = "anim"
    /\ fading' = FALSE
    /\ proceed_with_chunk(t.done_event, t.chunk, t.chunk, timers \ {t})
    /\ UNCHANGED <<cfgvars, backendvars, stop_event, queue, mainpc,
                   emitted, received, released, warnings>>

\* a typing timer fires: step()
TypingStep(t) ==
    /\ mainpc = "exec"
    /\ t \in timers
    /\ t.kind = "step"
    /\ step(t.done_event, t.chunk, t.words, t.displayed, typing_label, timers \ {t})
    /\ UNCHANGED <<cfgvars, backendvars, stop_event, queue, fading, mainpc,
                   emitted, received, released, warnings>>

Gui ==
    \/ Deliver
    \/ \E t \in timers : FadePause(t)
    \/ \E t \in timers : FadeFinished(t)
    \/ \E t \in timers : TypingStep(t)

(***************************************************************************)
(* main(): app.exec(), stop_event.set(), backend_thread.join()             *)
(***************************************************************************)
\* the window is closed and app.exec() returns
ExecReturns ==
    /\ mainpc = "exec"
    /\ mainpc' = "after_exec"
    /\ UNCHANGED <<cfgvars, backendvars, events_set, stop_event, guivars, logvars>>

\* stop_event.set()
SetStop ==
    /\ mainpc = "after_exec"
    /\ stop_event' = TRUE
    /\ mainpc' = "joining"
    /\ UNCHANGED <<cfgvars, backendvars, events_set, guivars, logvars>>

\* backend_thread.join() returns once backend_loop has returned
JoinReturns ==
    /\ mainpc = "joining"
    /\ pc = "stopped"
    /\ mainpc' = "exited"
    /\ UNCHANGED <<cfgvars, backendvars, events_set, stop_event, guivars, logvars>>

Main ==
    \/ ExecReturns
    \/ SetStop
    \/ JoinReturns

Next == Backend \/ Gui \/ Main

Spec == Init /\ [][Next]_vars

(***************************************************************************)
(* Properties.                                                             *)
(***************************************************************************)
\* the fragment emitted n-th has been acknowledged: its done event is set
Acknowledged(n) == emitted[n].done_event \in events_set

\* number of on_complete calls made for done event d
AckCount(d) == Cardinality({i \in 1..Len(acks) : acks[i] = d})

\* the display still holds a timer working on done event d
Pending(d) == \E t \in timers : t.done_event = d

\* C1: at most one fragment is in flight: whenever fragment n+1 has been
\* emitted, the done event created for fragment n has been set.
C1_OneInFlight ==
    /\ \A n \in 1..Len(emitted) : n < Len(emitted) => Acknowledged(n)
    /\ Cardinality({n \in 1..Len(emitted) : ~Acknowledged(n)}) <= 1

\* a second fragment is in flight, delivered and being animated, after the
\* first was acknowledged
C1_Witness ==
    /\ Len(emitted) >= 2
    /\ ~Acknowledged(Len(emitted))
    /\ Len(received) = Len(emitted)
    /\ timers # {}

\* C2: the consumer receives the fragments in strictly increasing
\* sequence-number order, each exactly once and none skipped, only one is
\* being displayed at a time, and the producer's i-th wait returns only after
\* the i-th acknowledgment.
C2_InOrderExactlyOnce ==
    /\ Len(received) <= Len(emitted)
    /\ \A i \in 1..Len(received) :
          /\ received[i] = emitted[i].done_event
          /\ emitted[received[i]].seq = i
    /\ \A t \in timers : t.done_event = received[Len(received)]
    /\ Cardinality(timers) <= 1
    /\ Len(released) <= Len(acks)
    /\ \A i \in 1..Len(released) :
          released[i] = emitted[i].done_event /\ acks[i] = released[i]

\* three fragments were received, two waits have returned
C2_Witness ==
    /\ Len(received) >= 3
    /\ Len(released) >= 2
    /\ timers # {}

\* C3: on_complete is called exactly once for every fragment delivered to
\* display_chunk_with_typing: never twice, not before the display is done
\* with the fragment, and once when it is done with it.
C3_AckExactlyOnce ==
    /\ \A i \in 1..Len(acks) : \E j \in 1..Len(received) : received[j] = acks[i]
    /\ \A i \in 1..Len(received) :
          LET d == received[i]
          IN  /\ AckCount(d) <= 1
              /\ Pending(d) => AckCount(d) = 0
              /\ ~Pending(d) => AckCount(d) = 1

\* two fragments were typed without a fade, the third overflowed, was typed
\* alone after the fade and acknowledged
C3_Witness ==
    /\ Len(acks) >= 3
    /\ timers = {}
    /\ balloon = emitted[3].text
    /\ candidate_full(emitted[1].text, emitted[2].text) # emitted[2].text
    /\ AckCount(1) = 1 /\ AckCount(2) = 1 /\ AckCount(3) = 1

\* C4: once the event loop has returned from app.exec(), the program does not
\* get stuck before backend_thread.join() has returned: until then some step
\* is always possible.
C4_StopNeverStuck ==
    mainpc \in {"after_exec", "joining"} => ENABLED Next

\* C5: with stop_event set while the fragments of one result are streamed,
\* no further fragment of that result is dispatched once the fragment in
\* flight has been acknowledged.
C5_StopAtFragmentBoundary ==
    [][stop_event /\ pc = "for_chunk" /\ ci > 0 => emitted' = emitted]_vars

\* C6: the sequence numbers of the emitted fragments are 1, 2, 3, ... and
\* chunk_counter is the number of fragments emitted.
C6_GapFreeSequence ==
    /\ \A i \in 1..Len(emitted) : emitted[i].seq = i
    /\ chunk_counter = Len(emitted)

\* a third fragment is emitted under a tangent prompt after an iteration
\* with empty output
C6_Witness ==
    /\ Len(emitted) >= 3
    /\ warnings >= 1
    /\ prompt.kind = "tangent"
    /\ pc = "waiting"

\* C7: the history never holds more than max_history_chunks entries, for
\* every capacity including 0.
C7_HistoryBounded == Len(history) <= max_history

\* C8: with capacity H >= 1, once the history update of the k-th fragment is
\* done the history is the texts of the last min(k, H) emitted fragments,
\* oldest first.
C8_HistoryIsLastH ==
    max_history >= 1 =>
        LET k == IF pc = "emitted" THEN Len(emitted) - 1 ELSE Len(emitted)
            m == IF k < max_history THEN k ELSE max_history
        IN  /\ Len(history) = m
            /\ \A i \in 1..m : history[i] = emitted[k - m + i].text

\* H + 3 fragments were pushed: the 3 oldest are gone, and they differ from
\* what is kept
C8_Witness ==
    /\ max_history >= 1
    /\ pc = "waiting"
    /\ Len(emitted) = max_history + 3
    /\ Len(history) = max_history
    /\ emitted[1].text # emitted[Len(emitted)].text

\* the cumulative fragment count is a positive multiple of the drift interval
DriftDue ==
    /\ drift_interval # 0
    /\ chunk_counter > 0
    /\ chunk_counter % drift_interval = 0

\* C9 as stated: the iteration uses a tangent prompt exactly when the
\* cumulative fragment count is a positive multiple of the drift interval.
C9_TangentExactlyAtMultiples ==
    pc = "generating" => (prompt.kind = "tangent" <=> DriftDue)

\* C9 amended: ... exactly when the count is a positive multiple of the drift
\* interval and the configured tangent_prompt is not empty.
C9_TangentAtMultiplesIfConfigured ==
    pc = "generating" =>
        (prompt.kind = "tangent" <=> (DriftDue /\ tangent_prompt # ""))

\* a tangent prompt is used at the second multiple of the interval
C9_Witness ==
    /\ pc = "generating"
    /\ prompt.kind = "tangent"
    /\ drift_interval >= 2
    /\ chunk_counter = 2 * drift_interval

\* C10: the step the loop takes on empty output logs a warning, goes back to
\* the while condition and changes neither chunk_counter, history nor the
\* iteration count, and dispatches nothing.
C10_EmptyOutputSkips ==
    [][pc = "generated" /\ raw_output = <<>> /\ pc' # pc =>
          /\ pc' = "loop_top"
          /\ warnings' = warnings + 1
          /\ chunk_counter' = chunk_counter
          /\ history' = history
          /\ iteration' = iteration
          /\ emitted' = emitted
          /\ queue' = queue]_vars

\* an iteration was skipped on empty output after fragments were emitted, and
\* the loop went on to another generate call
C10_Witness ==
    /\ warnings >= 1
    /\ raw_output = <<>>
    /\ pc = "generating"
    /\ iteration >= 3
    /\ Len(emitted) >= 1

(***************************************************************************)
(* chunk_by_sentence on its own: the text and the limit are drawn from     *)
(* bounded sets, the call fills chunks.                                    *)
(***************************************************************************)
\* longest enumerated text
MaxTextLen == 7
\* largest enumerated max_words
MaxLimit == 3

TextAlphabet == {"a", ".", " "}

\* "A " * 10 + "."
OverflowExample == <<"A", " ", "A", " ", "A", " ", "A", " ", "A", " ", "A", " ", "A", " ", "A", " ", "A", " ", "A", " ", ".">>

\* "Hello world."
HelloWorld == <<"H", "e", "l", "l", "o", " ", "w", "o", "r", "l", "d", ".">>

ChunkTexts ==
    UNION {[1..k -> TextAlphabet] : k \in 0..MaxTextLen}
        \cup {OverflowExample, HelloWorld}

ChunkLimits == 1..MaxLimit \cup {5, 100}

ChunkInit ==
    /\ raw_output \in ChunkTexts
    /\ max_words \in ChunkLimits
    /\ pc = "chunk_call"
    /\ chunks = <<>>
    /\ drift_interval = 0
    /\ max_history = 0
    /\ tangent_prompt = ""
    /\ iteration = 0
    /\ chunk_counter = 0
    /\ history = <<>>
    /\ prompt = NoPrompt
    /\ ci = 0
    /\ done = 0
    /\ events_set = {}
    /\ stop_event = FALSE
    /\ queue = <<>>
    /\ balloon = <<>>
    /\ typing_label = ""
    /\ fading = FALSE
    /\ timers = {}
    /\ mainpc = "exec"
    /\ emitted = <<>>
    /\ received = <<>>
    /\ acks = <<>>
    /\ released = <<>>
    /\ warnings = 0
    /\ TopicChosen

\* list(chunk_by_sentence(raw_output, max_words))
ChunkCall ==
    /\ pc = "chunk_call"
    /\ chunks' = chunk_by_sentence(raw_output, max_words)
    /\ pc' = "chunk_done"
    /\ UNCHANGED <<cfgvars, iteration, chunk_counter, history, prompt, raw_output, ci,
                   done, events_set, stop_event, guivars, mainpc, logvars>>

ChunkNext == ChunkCall

ChunkSpec == ChunkInit /\ [][ChunkNext]_vars

RECURSIVE all_words(_)
\* the words of the fragments, in yield order
all_words(fragments) ==
    IF fragments = <<>> THEN <<>>
    ELSE split(Head(fragments)) \o all_words(Tail(fragments))

\* C11: every fragment chunk_by_sentence yields has at least 1 and at most
\* max_words words.
C11_FragmentWordBound ==
    pc = "chunk_done" =>
        \A i \in 1..Len(chunks) :
            /\ Len(split(chunks[i])) >= 1
            /\ Len(split(chunks[i])) <= max_words

\* a single over-long sentence was sliced into full slices and a rest
C11_Witness ==
    /\ pc = "chunk_done"
    /\ max_words = 2
    /\ Len(sentence_split(strip(raw_output))) = 1
    /\ Len(chunks) = 2
    /\ Len(split(chunks[1])) = 2
    /\ Len(split(chunks[2])) = 1

\* C12: the words of the fragments, in yield order, are the words of the
\* input in order.
C12_WordsPreserved ==
    pc = "chunk_done" => all_words(chunks) = split(raw_output)

\* several sentences and several fragments, one of them holding two sentences
C12_Witness ==
    /\ pc = "chunk_done"
    /\ Len(sentence_split(strip(raw_output))) = 3
    /\ Len(chunks) = 2
    /\ Len(split(raw_output)) = 3

\* C13 as stated: "A " * 10 + "." with limit 5 yields exactly two fragments,
\* each of at most 5 words.
C13_OverflowExampleTwoFragments ==
    (pc = "chunk_done" /\ raw_output = OverflowExample /\ max_words = 5) =>
        /\ Len(chunks) = 2
        /\ \A i \in 1..Len(chunks) : Len(split(chunks[i])) <= 5

\* C13 amended: it yields exactly three fragments, of 5, 5 and 1 words (the
\* final "." is an eleventh word), each of at most 5 words.
C13_OverflowExampleThreeFragments ==
    (pc = "chunk_done" /\ raw_output = OverflowExample /\ max_words = 5) =>
        /\ Len(chunks) = 3
        /\ Len(split(chunks[1])) = 5
        /\ Len(split(chunks[2])) = 5
        /\ chunks[3] = <<".">>
        /\ \A i \in 1..Len(chunks) : Len(split(chunks[i])) <= 5

\* the example has been chunked
C13_Witness ==
    /\ pc = "chunk_done"
    /\ raw_output = OverflowExample
    /\ max_words = 5
    /\ Len(split(raw_output)) = 11

\* C14: no fragment for empty or whitespace-only input; exactly one fragment
\* with all the words when the input has between 1 and max_words words;
\* "Hello world." with limit 100 yields exactly "Hello world.".
C14_EmptyAndSingleFragment ==
    pc = "chunk_done" =>
        /\ split(raw_output) = <<>> => chunks = <<>>
        /\ (split(raw_output) # <<>> /\ Len(split(raw_output)) <= max_words) =>
              /\ Len(chunks) = 1
              /\ split(chunks[1]) = split(raw_output)
        /\ (raw_output = HelloWorld /\ max_words = 100) => chunks = <<HelloWorld>>

\* "Hello world." was chunked with limit 100
C14_Witness ==
    /\ pc = "chunk_done"
    /\ raw_output = HelloWorld
    /\ max_words = 100
    /\ chunks = <<HelloWorld>>

\* whitespace-only input was chunked
C14_WitnessBlank ==
    /\ pc = "chunk_done"
    /\ raw_output = <<" ", " ">>
    /\ chunks = <<>>

(***************************************************************************)
(* Topic selection: sanitize_topic, is_bad_topic, and the start of main()  *)
(***************************************************************************)
\* if len(line) > 100
TopicMaxLen == 100

Quotes == {"'", "\""}

UpperLetters == <<"A", "B", "C", "D", "E", "F", "G", "H", "I", "J", "K", "L", "M", "N", "O", "P", "Q", "R", "S", "T", "U", "V", "W", "X", "Y", "Z">>

LowerLetters == <<"a", "b", "c", "d", "e", "f", "g", "h", "i", "j", "k", "l", "m", "n", "o", "p", "q", "r", "s", "t", "u", "v", "w", "x", "y", "z">>

Digits == {"0", "1", "2", "3", "4", "5", "6", "7", "8", "9"}

\* re.IGNORECASE: the lower-case form of a character
lower(c) ==
    IF \E i \in 1..Len(UpperLetters) : UpperLetters[i] = c
    THEN LowerLetters[CHOOSE i \in 1..Len(UpperLetters) : UpperLetters[i] = c]
    ELSE c

lower_str(s) == [i \in 1..Len(s) |-> lower(s[i])]

\* \w of the regular expressions
IsWordChar(c) ==
    \/ \E i \in 1..Len(LowerLetters) : LowerLetters[i] = lower(c)
    \/ c \in Digits
    \/ c = "_"

RECURSIVE splitlines(_)
\* str.splitlines()
splitlines(s) ==
    IF s = <<>> THEN <<>>
    ELSE IF \A i \in 1..Len(s) : s[i] # "\n" THEN <<s>>
    ELSE LET nl == CHOOSE i \in 1..Len(s) :
                      s[i] = "\n" /\ \A j \in 1..(i - 1) : s[j] # "\n"
         IN  <<SubSeq(s, 1, nl - 1)>> \o splitlines(SubSeq(s, nl + 1, Len(s)))

RECURSIVE stripped_lines(_)
\* [l.strip() for l in lines if l.strip()]
stripped_lines(lines) ==
    IF lines = <<>> THEN <<>>
    ELSE IF strip(Head(lines)) = <<>> THEN stripped_lines(Tail(lines))
    ELSE <<strip(Head(lines))>> \o stripped_lines(Tail(lines))

RECURSIVE lstrip_quotes(_)
lstrip_quotes(s) ==
    IF s = <<>> THEN s
    ELSE IF Head(s) \in Quotes THEN lstrip_quotes(Tail(s)) ELSE s

RECURSIVE rstrip_quotes(_)
rstrip_quotes(s) ==
    IF s = <<>> THEN s
    ELSE IF Last(s) \in Quotes THEN rstrip_quotes(Front(s)) ELSE s

\* re.sub(r'^["\']+|["\']+$', '', line)
strip_end_quotes(line) == rstrip_quotes(lstrip_quotes(line))

\* s.rsplit(" ", 1)[0]: what precedes the last space, or all of s
rsplit_space_first(s) ==
    IF \E i \in 1..Len(s) : s[i] = " "
    THEN LET last == CHOOSE i \in 1..Len(s) :
                        s[i] = " " /\ \A j \in (i + 1)..Len(s) : s[j] # " "
         IN  SubSeq(s, 1, last - 1)
    ELSE s

\* if len(line) > 100: line = line[:100].rsplit(" ", 1)[0]
truncate_topic(line) ==
    IF Len(line) > TopicMaxLen
    THEN rsplit_space_first(SubSeq(line, 1, TopicMaxLen))
    ELSE line

\* sanitize_topic (src/main.py and src/topic_picker.py hold the same code)
sanitize_topic(raw) ==
    LET lines == stripped_lines(splitlines(strip(raw)))
    IN  IF lines = <<>> THEN <<>>
        ELSE truncate_topic(strip(strip_end_quotes(lines[1])))

\* pat.search(s) for a pattern that is a plain word sequence w, ignoring case
contains(s, w) ==
    \E i \in 1..(Len(s) - Len(w) + 1) :
        lower_str(SubSeq(s, i, i + Len(w) - 1)) = w

\* pat.search(s) for ^\s*w\b, ignoring case
starts_with_word(s, w) ==
    LET t == lstrip(s)
    IN  /\ Len(t) >= Len(w)
        /\ lower_str(SubSeq(t, 1, Len(w))) = w
        /\ (Len(t) = Len(w) \/ ~IsWordChar(t[Len(w) + 1]))

\* _bad_topic_patterns
matches_bad_pattern(s) ==
    \/ starts_with_word(s, <<"d", "o", " ", "n", "o", "t">>)
    \/ starts_with_word(s, <<"a", "v", "o", "i", "d">>)
    \/ contains(s, <<"i", "n", "s", "t", "r", "u", "c", "t", "i", "o", "n">>)
    \/ contains(s, <<"p", "r", "e", "v", "i", "o", "u", "s", " ", "s", "e", "n", "t", "e", "n", "c", "e">>)
    \/ contains(s, <<"p", "a", "r", "a", "g", "r", "a", "p", "h">>)

\* is_bad_topic
is_bad_topic(s) == s = <<>> \/ matches_bad_pattern(s)

\* longest enumerated raw output of the topic LLM
MaxRawLen == 4

RawAlphabet == {"a", " ", "'", "\"", "\n"}

Rep(c, n) == [i \in 1..n |-> c]

\* raw outputs the topic LLM may return: named candidates
TopicCandidates ==
    { <<>>,
      <<"r", "a", "i", "n">>,
      <<"D", "o", " ", "n", "o", "t">>,
      <<"d", "o", " ", "n", "o", "t", "h", "i", "n", "g">>,
      <<"A", "v", "o", "i", "d", ":", " ", "x">>,
      <<"t", "h", "e", " ", "I", "n", "s", "t", "r", "u", "c", "t", "i", "o", "n", "s">>,
      <<"a", " ", "p", "a", "r", "a", "g", "r", "a", "p", "h">>,
      <<" ", "\n">> }

\* "  'the color of silence'  \nignore this"
SilenceExample ==
    <<" ", " ", "'", "t", "h", "e", " ", "c", "o", "l", "o", "r", " ", "o", "f", " ", "s", "i", "l", "e", "n", "c", "e", "'", " ", " ", "\n", "i", "g", "n", "o", "r", "e", " ", "t", "h", "i", "s">>

\* first lines longer than 100 characters
LongRaws ==
    { Rep("a", 101),
      Rep("a", 98) \o <<" ", " ", "b", "b">>,
      Rep("a", 50) \o <<" ">> \o Rep("b", 60) }

SanitizeInputs ==
    TopicCandidates \cup {SilenceExample} \cup LongRaws
        \cup UNION {[1..k -> RawAlphabet] : k \in 0..MaxRawLen}

\* main() is entered: nothing chosen yet, the backend thread does not exist
StartInit ==
    /\ personalities \in {<<>>, <<"p1">>, <<"p1", "p2">>}
    /\ mainpc = "start"
    /\ pc = "not_started"
    /\ raws = <<>>
    /\ sanitized = <<>>
    /\ topic = <<>>
    /\ retries = 0
    /\ attempt = 0
    /\ tpc = "idle"
    /\ max_words = 1
    /\ drift_interval = 0
    /\ max_history = 0
    /\ tangent_prompt = ""
    /\ iteration = 0
    /\ chunk_counter = 0
    /\ history = <<>>
    /\ prompt = NoPrompt
    /\ raw_output = <<>>
    /\ chunks = <<>>
    /\ ci = 0
    /\ done = 0
    /\ events_set = {}
    /\ stop_event = FALSE
    /\ queue = <<>>
    /\ balloon = <<>>
    /\ typing_label = ""
    /\ fading = FALSE
    /\ timers = {}
    /\ emitted = <<>>
    /\ received = <<>>
    /\ acks = <<>>
    /\ released = <<>>
    /\ warnings = 0

\* variant of LoadConfig: the test for an empty personalities list is missing
LoadConfig_no_check ==
    /\ mainpc = "start"
    /\ mainpc' = "pick_topic"
    /\ UNCHANGED <<max_words, drift_interval, max_history, tangent_prompt,
                   personalities, raws, sanitized, topic, retries, attempt, tpc,
                   backendvars, events_set, stop_event, guivars, logvars>>

\* config = load_config(...); if not personalities: raise RuntimeError
LoadConfig ==
    /\ mainpc = "start"
    /\ mainpc' = IF personalities = <<>> THEN "aborted" ELSE "pick_topic"
    /\ UNCHANGED <<max_words, drift_interval, max_history, tangent_prompt,
                   personalities, raws, sanitized, topic, retries, attempt, tpc,
                   backendvars, events_set, stop_event, guivars, logvars>>

\* topic = pick_topic_via_llm(config, topic_picker_llm) of src/main.py
PickTopic(raw) ==
    /\ mainpc = "pick_topic"
    /\ raws' = Append(raws, raw)
    /\ sanitized' = sanitize_topic(raw)
    /\ topic' = IF sanitize_topic(raw) = <<>> THEN DefaultTopic ELSE sanitize_topic(raw)
    /\ mainpc' = "setup"
    /\ UNCHANGED <<max_words, drift_interval, max_history, tangent_prompt,
                   personalities, retries, attempt, tpc,
                   backendvars, events_set, stop_event, guivars, logvars>>

\* logger, LLMPipeline, window, dispatcher; backend_thread.start(); app.exec()
StartThread ==
    /\ mainpc = "setup"
    /\ pc = "not_started"
    /\ pc' = "priming"
    /\ mainpc' = "exec"
    /\ UNCHANGED <<cfgvars, iteration, chunk_counter, history, prompt, raw_output,
                   chunks, ci, done, events_set, stop_event, guivars, logvars>>

StartNext ==
    \/ LoadConfig
    \/ \E raw \in SanitizeInputs : PickTopic(raw)
    \/ StartThread

StartSpec == StartInit /\ [][StartNext]_vars

\* the topic LLM has answered and main() holds a topic
TopicPicked == mainpc \in {"setup", "exec"}

\* s is a contiguous part of line
IsInfix(s, line) ==
    \E i \in 1..(Len(line) + 1) :
        i + Len(s) - 1 <= Len(line) /\ SubSeq(line, i, i + Len(s) - 1) = s

\* the first line of raw that is not blank, stripped; <<>> when there is none
FirstNonBlankLine(raw) ==
    LET lines == splitlines(raw)
    IN  IF \E i \in 1..Len(lines) : strip(lines[i]) # <<>>
        THEN strip(lines[CHOOSE i \in 1..Len(lines) :
                            /\ strip(lines[i]) # <<>>
                            /\ \A j \in 1..(i - 1) : strip(lines[j]) = <<>>])
        ELSE <<>>

\* C15: the topic main() starts the session with is non-empty and matches no
\* blocklist pattern of is_bad_topic.
C15_TopicNeverMetaInstruction ==
    TopicPicked => topic # <<>> /\ ~matches_bad_pattern(topic)

\* C17: sanitize_topic returns the empty string for input without a non-blank
\* line; otherwise its result is taken from the first non-blank line only, has
\* at most 100 characters, and has neither a quote character nor whitespace at
\* its start or end.
C17_SanitizedClean ==
    TopicPicked =>
        LET raw == raws[Len(raws)]
            line == FirstNonBlankLine(raw)
        IN  /\ line = <<>> => sanitized = <<>>
            /\ line # <<>> =>
                  /\ IsInfix(sanitized, line)
                  /\ Len(sanitized) <= TopicMaxLen
                  /\ sanitized # <<>> =>
                        /\ Head(sanitized) \notin Quotes \cup Whitespace
                        /\ Last(sanitized) \notin Quotes \cup Whitespace

\* C18: with no personalities main() aborts: the backend thread is never
\* created and the topic LLM is never called.
C18_NoPersonalitiesAborts ==
    personalities = <<>> =>
        /\ mainpc \in {"start", "aborted"}
        /\ pc = "not_started"
        /\ raws = <<>>

\* main() has aborted on an empty personalities list
C18_Witness ==
    /\ personalities = <<>>
    /\ mainpc = "aborted"
    /\ pc = "not_started"

(***************************************************************************)
(* topic_picker.pick_topic_via_llm: the retry loop                         *)
(***************************************************************************)
\* largest value of the retries argument (its default is 3)
MaxRetries == 3

\* pick_topic_via_llm(config, llm_pipeline, retries) is entered
TopicInit ==
    /\ retries \in 0..MaxRetries
    /\ attempt = 0
    /\ tpc = "loop"
    /\ raws = <<>>
    /\ sanitized = <<>>
    /\ topic = <<>>
    /\ personalities = <<"p1">>
    /\ mainpc = "start"
    /\ pc = "not_started"
    /\ max_words = 1
    /\ drift_interval = 0
    /\ max_history = 0
    /\ tangent_prompt = ""
    /\ iteration = 0
    /\ chunk_counter = 0
    /\ history = <<>>
    /\ prompt = NoPrompt
    /\ raw_output = <<>>
    /\ chunks = <<>>
    /\ ci = 0
    /\ done = 0
    /\ events_set = {}
    /\ stop_event = FALSE
    /\ queue = <<>>
    /\ balloon = <<>>
    /\ typing_label = ""
    /\ fading = FALSE
    /\ timers = {}
    /\ emitted = <<>>
    /\ received = <<>>
    /\ acks = <<>>
    /\ released = <<>>
    /\ warnings = 0

\* variant of TPAttempt: the loop runs for range(1, retries + 2)
TPAttempt_extra(raw) ==
    /\ tpc = "loop"
    /\ attempt <= retries
    /\ attempt' = attempt + 1
    /\ raws' = Append(raws, raw)
    /\ sanitized' = sanitize_topic(raw)
    /\ IF is_bad_topic(sanitize_topic(raw))
       THEN UNCHANGED <<topic, tpc>>
       ELSE topic' = sanitize_topic(raw) /\ tpc' = "returned"
    /\ UNCHANGED <<max_words, drift_interval, max_history, tangent_prompt,
                   personalities, retries, backendvars, events_set, stop_event,
                   guivars, mainpc, logvars>>

\* one pass of the for loop: generate, sanitize, return unless is_bad_topic
TPAttempt(raw) ==
    /\ tpc = "loop"
    /\ attempt < retries
    /\ attempt' = attempt + 1
    /\ raws' = Append(raws, raw)
    /\ sanitized' = sanitize_topic(raw)
    /\ IF is_bad_topic(sanitize_topic(raw))
       THEN UNCHANGED <<topic, tpc>>
       ELSE topic' = sanitize_topic(raw) /\ tpc' = "returned"
    /\ UNCHANGED <<max_words, drift_interval, max_history, tangent_prompt,
                   personalities, retries, backendvars, events_set, stop_event,
                   guivars, mainpc, logvars>>

\* the loop is exhausted: return "the meaning of nostalgia"
TPFallback ==
    /\ tpc = "loop"
    /\ attempt >= retries
    /\ topic' = DefaultTopic
    /\ tpc' = "fallback"
    /\ UNCHANGED <<max_words, drift_interval, max_history, tangent_prompt,
                   personalities, raws, sanitized, retries, attempt,
                   backendvars, events_set, stop_event, guivars, mainpc, logvars>>

TopicNext ==
    \/ \E raw \in TopicCandidates : TPAttempt(raw)
    \/ TPFallback

TopicSpec == TopicInit /\ [][TopicNext]_vars

\* the i-th candidate was empty or matched the blocklist
Rejected(i) == is_bad_topic(sanitize_topic(raws[i]))

\* C16: the picker calls the backend at most `retries` times; it returns the
\* first sanitized candidate that is not bad, with no further call; it returns
\* the default topic exactly when all `retries` candidates were rejected; its
\* only outcomes are these two returns.
C16_RetryThenDefault ==
    /\ tpc \in {"loop", "returned", "fallback"}
    /\ Len(raws) = attempt
    /\ attempt <= retries
    /\ tpc = "loop" => \A i \in 1..attempt : Rejected(i)
    /\ tpc = "returned" =>
          /\ attempt >= 1
          /\ topic = sanitize_topic(raws[attempt])
          /\ ~is_bad_topic(topic)
          /\ \A i \in 1..(attempt - 1) : Rejected(i)
    /\ tpc = "fallback" =>
          /\ topic = DefaultTopic
          /\ attempt = retries
          /\ \A i \in 1..retries : Rejected(i)

\* the second candidate is returned after the first one was rejected
C16_Witness ==
    /\ tpc = "returned"
    /\ retries = 3
    /\ attempt = 2
    /\ Rejected(1)
    /\ topic = <<"r", "a", "i", "n">>

\* three candidates were rejected and the default topic is returned
C16_WitnessFallback ==
    /\ tpc = "fallback"
    /\ retries = 3
    /\ attempt = 3
    /\ raws[1] = <<"D", "o", " ", "n", "o", "t">>
    /\ raws[2] = <<>>
    /\ topic = DefaultTopic

(***************************************************************************)
(* Properties of the prompt and of the history update                      *)
(***************************************************************************)
\* C19: a prompt built from non-empty history is the continuation form with
\* at most the last 2 history entries as previous thoughts; a prompt built
\* from empty history is the initial form with no previous thoughts.
C19_PromptQuotesLastTwo ==
    /\ prompt.kind = "continue" => Len(prompt.thoughts) <= 2
    /\ pc = "generating" /\ prompt.kind = "continue" =>
          prompt.thoughts = slice_last(history, 2)
    /\ prompt.kind = "initial" => prompt.thoughts = <<>>
    /\ pc = "generating" /\ prompt.kind # "tangent" =>
          (prompt.kind = "initial" <=> history = <<>>)

\* C20: the history of backend_loop changes only when the fragment last
\* emitted has been acknowledged (its done event is set).
C20_AppendAfterAck ==
    [][history' # history => done \in events_set]_vars

(***************************************************************************)
(* Properties of the reveal, of cancellation and of termination            *)
(***************************************************************************)
\* C21: whenever on_complete is called, it is called by the step of a typing
\* timer whose words have all been shown, the balloon then shows exactly
\* those words joined by single spaces, the typing label is cleared and no
\* fade is in progress.
C21_AckAfterReveal ==
    [][acks' # acks =>
         \E t \in timers :
             /\ t.kind = "step"
             /\ acks' = Append(acks, t.done_event)
             /\ t.displayed = t.words
             /\ t.words # <<>>
             /\ balloon' = join(<<" ">>, t.words)
             /\ typing_label' = ""
             /\ ~fading /\ ~fading']_vars

\* a fragment was acknowledged with a balloon of several words on display
C21_Witness ==
    /\ acks # <<>>
    /\ timers = {}
    /\ typing_label = ""
    /\ Len(split(balloon)) >= 2
    /\ done \in events_set

\* the typing of text for the fragment with event d has begun in the next
\* state: its first word is on display and a typing timer holds its words
TypingBegun(d, text) ==
    /\ balloon' = split(text)[1]
    /\ \E u \in timers' :
           /\ u.kind = "step"
           /\ u.done_event = d
           /\ u.words = split(text)
           /\ u.displayed = <<split(text)[1]>>

\* C22: when a fragment is received and the displayed text plus the fragment
\* would overflow, a fade starts and the old text stays until the fade ends;
\* when the fade ends only the new fragment is typed; when there is no
\* overflow the full candidate is typed at once and no fade starts.
C22_OverflowFadesThenTypesNew ==
    [][/\ received' # received =>
            LET sig == Head(queue)
                full == candidate_full(balloon, sig.chunk)
            IN  IF Len(full) > BalloonCapacity
                THEN /\ ~fading /\ fading'
                     /\ balloon' = balloon
                     /\ acks' = acks
                     /\ \E u \in timers' :
                            u.kind = "pause" /\ u.done_event = sig.done_event
                                             /\ u.chunk = sig.chunk
                ELSE /\ fading' = fading
                     /\ TypingBegun(sig.done_event, full)
       /\ fading /\ ~fading' =>
            \E t \in timers :
                /\ t.kind = "anim"
                /\ TypingBegun(t.done_event, t.chunk)
      ]_vars

\* the second or a later fragment is on display alone and acknowledged:
\* the earlier text was faded out on overflow
C22_Witness ==
    /\ Len(acks) >= 2
    /\ Len(acks) = Len(emitted)
    /\ timers = {}
    /\ ~fading
    /\ balloon = join(<<" ">>, split(emitted[Len(emitted)].text))

\* two fragments are on display together: no overflow, the candidate was typed
C22_WitnessNoFade ==
    /\ Len(acks) = 2
    /\ timers = {}
    /\ balloon = emitted[1].text \o <<" ">> \o emitted[2].text

\* C23: an iteration enters its generate call only when the while condition
\* saw stop_event clear; with stop_event set the loop leaves from the top
\* without a call; a call under way when the flag is set is not preempted,
\* the backend's next step is the return of that call.
C23_NoNewCallAfterStop ==
    [][/\ pc # "generating" /\ pc' = "generating" => pc = "loop_top" /\ ~stop_event
       /\ stop_event /\ pc = "loop_top" /\ pc' # pc => pc' = "stopped"
       /\ raw_output' # raw_output \/ (pc = "generating" /\ pc' # pc) =>
              pc = "generating" /\ pc' = "generated"
      ]_vars

\* the loop has left on the flag, before the iteration cap, with calls made
C23_Witness ==
    /\ stop_event
    /\ pc = "stopped"
    /\ iteration >= 1
    /\ iteration < IterationCap

\* the flag is set while a generate call is under way
C23_WitnessRunning ==
    /\ stop_event
    /\ pc = "generating"

\* the session starts with one fixed configuration: one word per fragment,
\* a history of one entry, no tangent
LiveInit ==
    /\ Init
    /\ max_words = 1
    /\ drift_interval = 0
    /\ max_history = 1
    /\ tangent_prompt = ""

\* The backend thread runs whenever it can, and the Qt event loop handles
\* its posted calls and timers for as long as app.exec() runs.
LiveSpec == LiveInit /\ [][Next]_vars /\ WF_vars(Backend) /\ WF_vars(Gui)

\* llm.generate calls made so far: one for each iteration begun, the one of
\* the current iteration not counted while it is still to return
GenerateCalls == IF pc = "generating" THEN iteration - 1 ELSE iteration

\* C24: the loop makes at most 8 iterations, each with exactly one generate
\* call (iterations that return empty output included), and if the window
\* stays open (the stop flag is never set, every fragment is acknowledged)
\* backend_loop reaches Stopped.
C24_TerminatesWithinCap ==
    /\ [](iteration <= IterationCap /\ GenerateCalls <= IterationCap)
    /\ [][/\ iteration' # iteration =>
                iteration' = iteration + 1 /\ pc = "loop_top" /\ pc' = "generating"
          /\ pc = "generating" /\ pc' # pc => pc' = "generated" /\ iteration' = iteration
          /\ pc = "generated" /\ pc' # pc => pc' \in {"loop_top", "for_chunk"}
         ]_vars
    /\ <>(pc = "stopped" \/ mainpc # "exec")

\* the loop has stopped at the cap of 8 iterations, the stop flag clear
C24_Witness ==
    /\ pc = "stopped"
    /\ ~stop_event
    /\ mainpc = "exec"
    /\ iteration = IterationCap
    /\ warnings >= 1

(***************************************************************************)
(* chunk_by_sentence is greedy on sentence boundaries                      *)
(***************************************************************************)
RECURSIVE nonblank(_)
\* the sentences that hold at least one word
nonblank(sentences) ==
    IF sentences = <<>> THEN <<>>
    ELSE IF split(Head(sentences)) = <<>> THEN nonblank(Tail(sentences))
    ELSE <<Head(sentences)>> \o nonblank(Tail(sentences))

RECURSIVE word_total(_, _)
\* the number of words of the first j sentences
word_total(sentences, j) ==
    IF j = 0 THEN 0
    ELSE Len(split(sentences[j])) + word_total(sentences, j - 1)

\* the number of slices of a sentence of n words cut every m words
SliceCount(n, m) == (n + m - 1) \div m

RECURSIVE GreedyFragments(_, _, _)
\* fragments is what the sentences give when cut greedily at limit m:
\* an over-long first sentence gives its word slices; otherwise the first
\* fragment is the first j whole sentences joined by spaces, where the j
\* sentences fit in m words and the next one, if any, would not
GreedyFragments(sentences, fragments, m) ==
    IF sentences = <<>> THEN fragments = <<>>
    ELSE LET words == split(sentences[1])
             n == Len(words)
             k == SliceCount(n, m)
         IN  IF n > m
             THEN /\ Len(fragments) >= k
                  /\ \A r \in 1..k :
                        fragments[r] =
                            join(<<" ">>, SubSeq(words, (r - 1) * m + 1,
                                                 IF r * m < n THEN r * m ELSE n))
                  /\ GreedyFragments(Tail(sentences),
                                     SubSeq(fragments, k + 1, Len(fragments)), m)
             ELSE \E j \in 1..Len(sentences) :
                     /\ word_total(sentences, j) <= m
                     /\ j < Len(sentences) =>
                            word_total(sentences, j + 1) > m
                     /\ fragments # <<>>
                     /\ fragments[1] = strip(join(<<" ">>, SubSeq(sentences, 1, j)))
                     /\ GreedyFragments(SubSeq(sentences, j + 1, Len(sentences)),
                                        Tail(fragments), m)

\* C25: the fragments are the greedy cut of the sentences: a fragment that is
\* not a slice of an over-long sentence is one or more whole consecutive
\* sentences joined by spaces and ends only where the next sentence would
\* not fit or the input ends; only a sentence of more than max_words words
\* is cut inside.
C25_GreedyOnSentences ==
    pc = "chunk_done" =>
        GreedyFragments(nonblank(sentence_split(strip(raw_output))), chunks, max_words)

\* three sentences at limit 2: the first fragment holds two whole sentences,
\* the third sentence did not fit and stands alone
C25_Witness ==
    /\ pc = "chunk_done"
    /\ max_words = 2
    /\ Len(nonblank(sentence_split(strip(raw_output)))) = 3
    /\ Len(chunks) = 2
    /\ Len(sentence_split(chunks[1])) = 2
    /\ Len(sentence_split(chunks[2])) = 1

\* a short sentence, then an over-long one that is sliced
C25_WitnessSliced ==
    /\ pc = "chunk_done"
    /\ max_words = 1
    /\ Len(nonblank(sentence_split(strip(raw_output)))) = 2
    /\ Len(chunks) = 3

(***************************************************************************)
(* Acknowledgments and the fade guard                                      *)
(***************************************************************************)
\* the events on which on_complete has been called
AckedEvents == {acks[i] : i \in 1..Len(acks)}

\* C26: every emitted fragment has an Event of its own; the events that are
\* set are those whose own on_complete ran; the n-th return of done.wait()
\* is for the n-th fragment, after that fragment's own on_complete; and while
\* the producer waits, calling on_complete again for any other fragment does
\* not set the awaited event, and calling it again for an acknowledged
\* fragment changes nothing.
C26_AcksDoNotCross ==
    /\ \A i, j \in 1..Len(emitted) :
           i # j => emitted[i].done_event # emitted[j].done_event
    /\ events_set = AckedEvents
    /\ Len(released) <= Len(emitted)
    /\ \A n \in 1..Len(released) :
           released[n] = emitted[n].done_event /\ released[n] \in AckedEvents
    /\ pc \in {"emitted", "waiting"} => done = emitted[Len(emitted)].done_event
    /\ \A n \in 1..Len(emitted) :
           LET d == emitted[n].done_event
           IN  /\ d \in events_set => on_complete(events_set, d) = events_set
               /\ (pc = "waiting" /\ done \notin events_set /\ d # done) =>
                      done \notin on_complete(events_set, d)

\* the producer waits for the second fragment, the first one acknowledged
C26_Witness ==
    /\ pc = "waiting"
    /\ Len(emitted) = 2
    /\ done = emitted[2].done_event
    /\ done \notin events_set
    /\ emitted[1].done_event \in events_set

\* C27: display_chunk_with_typing is entered only when no typing timer and
\* no fade of an earlier fragment is pending, so fade_out_and_clear never
\* finds _fading set; a fragment waits in the event queue only in such a
\* state, and every received fragment is acknowledged or still has its own
\* timer pending.
C27_FadeGuardNeverTaken ==
    /\ [](queue # <<>> => timers = {} /\ ~fading)
    /\ [](\A i \in 1..Len(received) :
              \/ received[i] \in AckedEvents
              \/ \E t \in timers : t.done_event = received[i])
    /\ [][received' # received => timers = {} /\ ~fading]_vars

\* a later fragment was received with the display idle, overflowed, and its
\* fade is under way
C27_Witness ==
    /\ Len(received) >= 2
    /\ fading
    /\ Cardinality(timers) = 1
    /\ \E t \in timers : t.kind = "anim" /\ t.done_event = received[Len(received)]

====
